---- MODULE Spec2Model ----
(***************************************************************************)
(* hexzen: an interactive terminal hex/text editor.                        *)
(*                                                                         *)
(* The model follows src/src/screen.rs (Screen: the event loop, the        *)
(* prompt, the redraw with its cursor/viewport clamps), src/src/main.rs    *)
(* (FileEditor: buffer, undo/redo history, save) and src/src/search.rs     *)
(* (query compilation, SearchResults).                                     *)
(*                                                                         *)
(* screen.rs computes cursor_nibble, offset and height in usize.  A usize  *)
(* operation that overflows aborts a debug build and wraps in a release    *)
(* build: every handler is explored under both (its input `build`).        *)
(* usize is modelled UsizeBits wide (TLC's integers are 32 bits wide).     *)
(* Characters and bytes are their numeric codes (0x61 = 97 = 'a').         *)
(***************************************************************************)
EXTENDS Integers, Sequences, FiniteSets, TLC

VARIABLES
    buffer,          \* FileEditor.buffer: the bytes being edited
    file,            \* the content of the file named FileEditor.filename
    offset,          \* FileEditor.offset: first byte of the viewport
    cursor_nibble,   \* FileEditor.cursor_nibble
    saved,           \* FileEditor.saved (the dirty flag, negated)
    undo_stack,      \* FileEditor.undo_stack: Edit records, top is last
    redo_stack,      \* FileEditor.redo_stack
    status,          \* "running" (Screen.running), "stopped", "panicked"
    width,           \* Screen.width
    height,          \* Screen.height
    editor_mode,     \* Screen.editor_mode: "HexMode" | "TextMode"
    screen_mode,     \* Screen.screen_mode: "EditMode" | "CommandMode"
    input_buffer,    \* Screen.input_buffer: the characters typed at a prompt
    input_callback,  \* Screen.input_callback: "None" | "jump" | "search" | "quit"
    search_results,  \* Screen.search_results: None or a SearchResults record
    snaps,           \* history: the buffers along the current edit timeline
    last             \* history: the handler that ran last, and what it returned

vars == <<buffer, file, offset, cursor_nibble, saved, undo_stack, redo_stack,
          status, width, height, editor_mode, screen_mode, input_buffer,
          input_callback, search_results, snaps, last>>

----------------------------------------------------------------------------
(* Bounds of the model and constants of the program *)

\* usize is modelled this many bits wide
UsizeBits == 16
\* an edit is accepted while the undo stack holds fewer records than this:
\* in the editing session, and in the viewing, search and saving sessions
MaxEdits == 2
FewEdits == 1
\* while no redraw clamps it (height < 5) the cursor is followed this far
\* past either end of its range
MaxBlind == 2

BYTES_PER_ROW == 16
U16_MAX == 65535

Usize == 2 ^ UsizeBits

None == [none |-> TRUE]

----------------------------------------------------------------------------
(* usize arithmetic *)

Ovf(x) == x < 0 \/ x >= Usize
Wrap(x) == x % Usize
Min(a, b) == IF a < b THEN a ELSE b
Max(a, b) == IF a > b THEN a ELSE b
Clamp(x, lo, hi) == Min(Max(x, lo), hi)
SatSub(a, b) == IF a >= b THEN a - b ELSE 0

\* an overflowing usize operation aborts a debug build
OvfPanics(build, x) == build = "debug" /\ Ovf(x)

----------------------------------------------------------------------------
(* FileEditor (src/src/main.rs).  An editor value e is the record of the   *)
(* FileEditor fields plus `panic`, set once the handler has aborted.       *)

Editor ==
    [buffer |-> buffer, offset |-> offset, cursor_nibble |-> cursor_nibble,
     saved |-> saved, undo_stack |-> undo_stack, redo_stack |-> redo_stack,
     panic |-> FALSE]

file_size(e) == Len(e.buffer)

\* Vec::pop / Vec::push on the top (the end) of a stack
Top(s) == s[Len(s)]
Pop(s) == SubSeq(s, 1, Len(s) - 1)

\* an assignment that reaches the byte after position too
SetByte_and_next(buf, position, byte) ==
    [k \in 1..Len(buf) |->
        IF k = position + 1 \/ k = position + 2 THEN byte ELSE buf[k]]

\* buffer[position] = byte, position counted from 0
SetByte(buf, position, byte) == [buf EXCEPT ![position + 1] = byte]

\* push_undo() that leaves the redo stack as it was
push_undo_keeping_redo(e, edit) ==
    [e EXCEPT !.undo_stack = Append(e.undo_stack, edit)]

push_undo(e, edit) ==
    [e EXCEPT !.undo_stack = Append(e.undo_stack, edit),
              !.redo_stack = <<>>]

\* a merge that takes the low nibble for an even cursor
NibbleInto_other_half(byte, nibble, cursor) ==
    IF cursor % 2 = 1
    THEN (byte % 16) + ((nibble * 16) % 256)
    ELSE (byte - (byte % 16)) + (nibble % 16)

\* (byte & 0x0f) | (nibble << 4)  or  (byte & 0xf0) | (nibble & 0x0f)
NibbleInto(byte, nibble, cursor) ==
    IF cursor % 2 = 0
    THEN (byte % 16) + ((nibble * 16) % 256)
    ELSE (byte - (byte % 16)) + (nibble % 16)

write_nibble(e, nibble) ==
    LET position == e.cursor_nibble \div 2 IN
    IF e.panic THEN e
    ELSE IF position >= Len(e.buffer) THEN [e EXCEPT !.panic = TRUE]
    ELSE LET byte == e.buffer[position + 1]
             new_byte == NibbleInto(byte, nibble, e.cursor_nibble)
             e1 == push_undo(e, [position |-> position, prev_byte |-> byte,
                                 new_byte |-> new_byte])
         IN  [e1 EXCEPT !.buffer = SetByte(e.buffer, position, new_byte),
                        !.saved = FALSE]

\* write_byte() that records the byte written as the byte found
write_byte_recording_new(e, byte) ==
    LET position == e.cursor_nibble \div 2 IN
    IF e.panic THEN e
    ELSE IF position >= Len(e.buffer) THEN [e EXCEPT !.panic = TRUE]
    ELSE LET e1 == push_undo(e, [position |-> position,
                                 prev_byte |-> byte,
                                 new_byte |-> byte])
         IN  [e1 EXCEPT !.buffer = SetByte(e.buffer, position, byte),
                        !.saved = FALSE]

\* write_byte() that pushes the record before it reads the buffer
write_byte_pushing_first(e, byte) ==
    LET position == e.cursor_nibble \div 2
        e1 == push_undo(e, [position |-> position,
                            prev_byte |-> 0,
                            new_byte |-> byte])
    IN
    IF e.panic THEN e
    ELSE IF position >= Len(e.buffer) THEN [e1 EXCEPT !.panic = TRUE]
    ELSE [e1 EXCEPT !.undo_stack[Len(e1.undo_stack)].prev_byte = e.buffer[position + 1],
                    !.buffer = SetByte(e.buffer, position, byte),
                    !.saved = FALSE]

write_byte(e, byte) ==
    LET position == e.cursor_nibble \div 2 IN
    IF e.panic THEN e
    ELSE IF position >= Len(e.buffer) THEN [e EXCEPT !.panic = TRUE]
    ELSE LET e1 == push_undo(e, [position |-> position,
                                 prev_byte |-> e.buffer[position + 1],
                                 new_byte |-> byte])
         IN  [e1 EXCEPT !.buffer = SetByte(e.buffer, position, byte),
                        !.saved = FALSE]

\* undo() that puts back the byte the edit wrote
undo_to_new_byte(e) ==
    IF e.undo_stack = <<>> THEN [e |-> e, did |-> FALSE]
    ELSE LET edit == Top(e.undo_stack) IN
         [e |-> [e EXCEPT !.buffer = SetByte(e.buffer, edit.position, edit.new_byte),
                          !.cursor_nibble = 2 * edit.position,
                          !.undo_stack = Pop(e.undo_stack),
                          !.redo_stack = Append(e.redo_stack, edit),
                          !.saved = FALSE],
          did |-> TRUE]

\* undo() and redo() return bool: `did` tells whether a record was popped
\* undo() that leaves the dirty flag as it is
undo_keeping_saved(e) ==
    IF e.undo_stack = <<>> THEN [e |-> e, did |-> FALSE]
    ELSE LET edit == Top(e.undo_stack) IN
         [e |-> [e EXCEPT !.buffer = SetByte(e.buffer, edit.position, edit.prev_byte),
                          !.cursor_nibble = 2 * edit.position,
                          !.undo_stack = Pop(e.undo_stack),
                          !.redo_stack = Append(e.redo_stack, edit)],
          did |-> TRUE]

undo(e) ==
    IF e.undo_stack = <<>> THEN [e |-> e, did |-> FALSE]
    ELSE LET edit == Top(e.undo_stack) IN
         [e |-> [e EXCEPT !.buffer = SetByte(e.buffer, edit.position, edit.prev_byte),
                          !.cursor_nibble = 2 * edit.position,
                          !.undo_stack = Pop(e.undo_stack),
                          !.redo_stack = Append(e.redo_stack, edit),
                          !.saved = FALSE],
          did |-> TRUE]

\* redo() that does not push the record on the undo stack
redo_dropping_record(e) ==
    IF e.redo_stack = <<>> THEN [e |-> e, did |-> FALSE]
    ELSE LET edit == Top(e.redo_stack) IN
         [e |-> [e EXCEPT !.buffer = SetByte(e.buffer, edit.position, edit.new_byte),
                          !.cursor_nibble = 2 * edit.position,
                          !.redo_stack = Pop(e.redo_stack),
                          !.saved = FALSE],
          did |-> TRUE]

\* redo() that leaves the cursor where it is
redo_keeping_cursor(e) ==
    IF e.redo_stack = <<>> THEN [e |-> e, did |-> FALSE]
    ELSE LET edit == Top(e.redo_stack) IN
         [e |-> [e EXCEPT !.buffer = SetByte(e.buffer, edit.position, edit.new_byte),
                          !.redo_stack = Pop(e.redo_stack),
                          !.undo_stack = Append(e.undo_stack, edit),
                          !.saved = FALSE],
          did |-> TRUE]

\* redo() that moves the record and the cursor but leaves the buffer
redo_not_writing(e) ==
    IF e.redo_stack = <<>> THEN [e |-> e, did |-> FALSE]
    ELSE LET edit == Top(e.redo_stack) IN
         [e |-> [e EXCEPT !.cursor_nibble = 2 * edit.position,
                          !.redo_stack = Pop(e.redo_stack),
                          !.undo_stack = Append(e.undo_stack, edit),
                          !.saved = FALSE],
          did |-> TRUE]

redo(e) ==
    IF e.redo_stack = <<>> THEN [e |-> e, did |-> FALSE]
    ELSE LET edit == Top(e.redo_stack) IN
         [e |-> [e EXCEPT !.buffer = SetByte(e.buffer, edit.position, edit.new_byte),
                          !.cursor_nibble = 2 * edit.position,
                          !.redo_stack = Pop(e.redo_stack),
                          !.undo_stack = Append(e.undo_stack, edit),
                          !.saved = FALSE],
          did |-> TRUE]

\* save() that sets saved whatever fs::write returned
save_always_saved(e, ok) == [e EXCEPT !.saved = TRUE]

\* save(): fs::write(&self.filename, &self.buffer)?; self.saved = true.
\* `ok` is the outcome of fs::write; an Err returns before saved is set.
save(e, ok) == IF ok THEN [e EXCEPT !.saved = TRUE] ELSE e

\* What fs::write leaves in the file: the whole buffer when it succeeds; when
\* it fails, the old content (the file could not be opened) or a truncated
\* file holding the first n bytes written before the error.
FileAfterWrite(old, buf, ok, n) ==
    IF ok THEN buf
    ELSE IF n < 0 THEN old ELSE SubSeq(buf, 1, n)

\* read_bytes(size): &buffer[offset ..= min(offset + size, len - 1)];
\* the record tells whether taking the slice aborts, and the slice
read_bytes(e, size, build) ==
    LET len == Len(e.buffer)
        upto == e.offset + size
        lastidx == len - 1
        end == Min(Wrap(upto), Wrap(lastidx))
        bad == OvfPanics(build, upto) \/ OvfPanics(build, lastidx)
               \/ e.offset > end + 1 \/ end >= len
    IN  [panic |-> bad,
         slice |-> IF bad THEN <<>> ELSE SubSeq(e.buffer, e.offset + 1, end + 1)]

----------------------------------------------------------------------------
(* Screen (src/src/screen.rs): redraw and cursor movement *)

\* input_prefix.len() of the prompt a callback belongs to:
\* "j ", "/", "quit without saving? "
PrefixLen(cb) ==
    CASE cb = "jump" -> 2
      [] cb = "search" -> 1
      [] cb = "quit" -> 21
      [] OTHER -> 0

\* coords_for_cursor(): (x, y) of the cursor on the screen; unders tells
\* whether cursor_nibble - 2 * offset underflowed
\* coords_for_cursor() with no gap between the two halves of the hex row
coords_for_cursor_without_gap(c, o, mode) ==
    LET diff == c - 2 * o
        nibble_wo_offset == Wrap(diff)
        x0 == 12 + ((nibble_wo_offset % (2 * BYTES_PER_ROW)) \div 2) * 3
                 + (nibble_wo_offset % 2)
        y == 3 + (nibble_wo_offset \div (2 * BYTES_PER_ROW))
    IN  IF mode = "HexMode"
        THEN [x |-> x0, y |-> y, unders |-> Ovf(diff)]
        ELSE [x |-> 63 + ((nibble_wo_offset % (2 * BYTES_PER_ROW)) \div 2),
              y |-> y, unders |-> Ovf(diff)]

coords_for_cursor(c, o, mode) ==
    LET diff == c - 2 * o
        nibble_wo_offset == Wrap(diff)
        x0 == 12 + ((nibble_wo_offset % (2 * BYTES_PER_ROW)) \div 2) * 3
                 + (nibble_wo_offset % 2)
        y == 3 + (nibble_wo_offset \div (2 * BYTES_PER_ROW))
    IN  IF mode = "HexMode"
        THEN [x |-> IF x0 >= 36 THEN x0 + 1 ELSE x0, y |-> y, unders |-> Ovf(diff)]
        ELSE [x |-> 63 + ((nibble_wo_offset % (2 * BYTES_PER_ROW)) \div 2),
              y |-> y, unders |-> Ovf(diff)]

\* The cursor clamp of draw(): cursor_nibble.clamp(0, 2 * file_size() - 1)
ClampCursor(c, len) == Clamp(c, 0, Wrap(2 * len - 1))

\* a scroll step that follows the cursor upwards only
ScrollOffset_up_only(c, o, h) ==
    IF c < Wrap(2 * o) THEN (c \div (2 * BYTES_PER_ROW)) * BYTES_PER_ROW ELSE o

\* a scroll step that puts the cursor's byte, or the byte one row below the
\* top, first in the view
ScrollOffset_to_byte(c, o, h) ==
    IF c < Wrap(2 * o) THEN c \div 2
    ELSE IF c >= Wrap(2 * Wrap(o + BYTES_PER_ROW * (h - 4)))
         THEN Wrap(c \div 2 - BYTES_PER_ROW * (h - 4 - 1))
         ELSE o

\* a scroll step that follows the cursor downwards only
ScrollOffset_down_only(c, o, h) ==
    IF c >= Wrap(2 * Wrap(o + BYTES_PER_ROW * (h - 4)))
    THEN Wrap((c \div (2 * BYTES_PER_ROW)) * BYTES_PER_ROW - BYTES_PER_ROW * (h - 4 - 1))
    ELSE o

\* The scroll step of draw(): the offset that brings the cursor's row back
\* into the view, before the offset clamp
ScrollOffset(c, o, h) ==
    LET cursor_row == (c \div (2 * BYTES_PER_ROW)) * BYTES_PER_ROW IN
    IF c < Wrap(2 * o) THEN cursor_row
    ELSE IF c >= Wrap(2 * Wrap(o + BYTES_PER_ROW * (h - 4)))
         THEN Wrap(cursor_row - BYTES_PER_ROW * (h - 4 - 1))
         ELSE o

\* The usize operations of the scroll step that overflow on the path taken
ScrollOverflows(c, o, h) ==
    LET cursor_row == (c \div (2 * BYTES_PER_ROW)) * BYTES_PER_ROW
        lim == o + BYTES_PER_ROW * (h - 4)
    IN  \/ Ovf(2 * o)
        \/ /\ c >= Wrap(2 * o)
           /\ \/ Ovf(lim)
              \/ Ovf(2 * Wrap(lim))
              \/ /\ c >= Wrap(2 * Wrap(lim))
                 /\ Ovf(cursor_row - BYTES_PER_ROW * (h - 4 - 1))

\* The offset clamp of draw(): offset.clamp(0, file_size() - file_size() % 16)
ClampOffset(o, len) == Clamp(o, 0, len - (len % BYTES_PER_ROW))

\* draw(): returns at once below 5 rows; else clamps the cursor, scrolls,
\* clamps the offset, reads the window and paints.  smode, mode, inlen and
\* plen are screen_mode, editor_mode, input_buffer.len() and
\* input_prefix.len(); w and h are width and height.
draw(e, h, w, smode, mode, inlen, plen, build) ==
    IF e.panic \/ h < 5 THEN e
    ELSE
    LET len == file_size(e)
        c1 == ClampCursor(e.cursor_nibble, len)
        o1 == ScrollOffset(c1, e.offset, h)
        o2 == ClampOffset(o1, len)
        e2 == [e EXCEPT !.cursor_nibble = c1, !.offset = o2]
        window == read_bytes(e2, BYTES_PER_ROW * (h - 4), build)
        \* the input line: input_buffer[(len + prefix + 1).saturating_sub(width) ..]
        linestart == SatSub(inlen + plen + 1, w)
        xy == coords_for_cursor(c1, o2, mode)
        aborts ==
            \/ OvfPanics(build, 2 * len - 1)
            \/ build = "debug" /\ ScrollOverflows(c1, e.offset, h)
            \/ window.panic
            \/ smode = "CommandMode" /\ linestart > inlen
            \/ smode = "EditMode"
               /\ ((build = "debug" /\ xy.unders) \/ xy.x > U16_MAX \/ xy.y > U16_MAX)
    IN  [e2 EXCEPT !.panic = aborts]

\* move_cursor(movement): the new cursor and offset, then draw().
\* `over` collects the usize operations that overflowed.
\* a page of one row more: the rows below the header, the status line not
\* taken off
Moved_page_with_status_row(e, movement, h, mode) ==
    LET xmov == IF mode = "HexMode" THEN 1 ELSE 2
        ymov == 2 * BYTES_PER_ROW
        c == e.cursor_nibble
        o == e.offset
        rows == h - 3
        cpage == ymov * Wrap(rows)
        opage == Wrap(rows) * BYTES_PER_ROW
    IN  CASE movement = "Right" -> [c |-> c + xmov, o |-> o, over |-> FALSE]
          [] movement = "Left" -> [c |-> c - xmov, o |-> o, over |-> FALSE]
          [] movement = "Up" -> [c |-> c - ymov, o |-> o, over |-> FALSE]
          [] movement = "Down" -> [c |-> c + ymov, o |-> o, over |-> FALSE]
          [] movement = "PageUp" ->
                [c |-> SatSub(c, Wrap(cpage)), o |-> SatSub(o, Wrap(opage)),
                 over |-> Ovf(rows) \/ Ovf(cpage) \/ Ovf(opage)]
          [] movement = "PageDown" ->
                [c |-> c + Wrap(cpage), o |-> o + Wrap(opage),
                 over |-> Ovf(rows) \/ Ovf(cpage) \/ Ovf(opage)]

Moved(e, movement, h, mode) ==
    LET xmov == IF mode = "HexMode" THEN 1 ELSE 2
        ymov == 2 * BYTES_PER_ROW
        c == e.cursor_nibble
        o == e.offset
        rows == h - 4
        cpage == ymov * Wrap(rows)
        opage == Wrap(rows) * BYTES_PER_ROW
    IN  CASE movement = "Right" -> [c |-> c + xmov, o |-> o, over |-> FALSE]
          [] movement = "Left" -> [c |-> c - xmov, o |-> o, over |-> FALSE]
          [] movement = "Up" -> [c |-> c - ymov, o |-> o, over |-> FALSE]
          [] movement = "Down" -> [c |-> c + ymov, o |-> o, over |-> FALSE]
          [] movement = "PageUp" ->
                [c |-> SatSub(c, Wrap(cpage)), o |-> SatSub(o, Wrap(opage)),
                 over |-> Ovf(rows) \/ Ovf(cpage) \/ Ovf(opage)]
          [] movement = "PageDown" ->
                [c |-> c + Wrap(cpage), o |-> o + Wrap(opage),
                 over |-> Ovf(rows) \/ Ovf(cpage) \/ Ovf(opage)]

move_cursor(e, movement, h, w, mode, build) ==
    IF e.panic THEN e
    ELSE
    LET m == Moved(e, movement, h, mode)
        e1 == [e EXCEPT !.cursor_nibble = Wrap(m.c), !.offset = Wrap(m.o),
                        !.panic = build = "debug" /\ (m.over \/ Ovf(m.c) \/ Ovf(m.o))]
    IN  draw(e1, h, w, "EditMode", mode, 0, 0, build)

----------------------------------------------------------------------------
(* Search (src/src/search.rs).  A query is the sequence of the character   *)
(* codes typed; a pattern is a sequence of bytes.                          *)

\* the value of a hexadecimal digit, -1 for any other character
HexDigit(c) ==
    IF c >= 48 /\ c <= 57 THEN c - 48
    ELSE IF c >= 97 /\ c <= 102 THEN c - 97 + 10
    ELSE IF c >= 65 /\ c <= 70 THEN c - 65 + 10
    ELSE -1

\* a decoding that drops the odd digit at the end
hex_decode_even_part(input) ==
    LET whole == SubSeq(input, 1, 2 * (Len(input) \div 2)) IN
    IF \E k \in 1..Len(input) : HexDigit(input[k]) < 0
    THEN [ok |-> FALSE, bytes |-> <<>>]
    ELSE [ok |-> TRUE,
          bytes |-> [k \in 1..(Len(whole) \div 2) |->
                        16 * HexDigit(whole[2 * k - 1]) + HexDigit(whole[2 * k])]]

\* hex::decode(input): Err on an odd length or a character that is no digit
hex_decode(input) ==
    IF Len(input) % 2 # 0 \/ \E k \in 1..Len(input) : HexDigit(input[k]) < 0
    THEN [ok |-> FALSE, bytes |-> <<>>]
    ELSE [ok |-> TRUE,
          bytes |-> [k \in 1..(Len(input) \div 2) |->
                        16 * HexDigit(input[2 * k - 1]) + HexDigit(input[2 * k])]]

\* a compilation that takes a query that is no hexadecimal for no bytes
query_bytes_lenient(input) ==
    IF Len(input) > 0 /\ input[1] = 47
    THEN [ok |-> TRUE, bytes |-> Tail(input)]
    ELSE [ok |-> TRUE, bytes |-> hex_decode(input).bytes]

\* the pattern of a query: the bytes after a leading '/', else the hex decoding
query_bytes(input) ==
    IF Len(input) > 0 /\ input[1] = 47
    THEN [ok |-> TRUE, bytes |-> Tail(input)]
    ELSE hex_decode(input)

\* the needle occurs in the haystack at idx (counted from 0)
OccursAt(haystack, needle, idx) ==
    /\ idx + Len(needle) <= Len(haystack)
    /\ \A k \in 1..Len(needle) : haystack[idx + k] = needle[k]

\* memchr::memmem::find_iter: the leftmost occurrence at or after pos, then
\* the search resumes past its end (one byte on for an empty needle)
RECURSIVE find_iter_from(_, _, _)
find_iter_from(haystack, needle, pos) ==
    LET found == {idx \in pos..Len(haystack) : OccursAt(haystack, needle, idx)} IN
    IF pos > Len(haystack) \/ found = {} THEN <<>>
    ELSE LET idx == CHOOSE i \in found : \A j \in found : i <= j
         IN  <<idx>> \o find_iter_from(haystack, needle, idx + Max(1, Len(needle)))

find_iter(haystack, needle) == find_iter_from(haystack, needle, 0)

\* a constructor that selects the last match
SearchResults_new_at_last(results, match_size) ==
    IF results = <<>> THEN None
    ELSE [none |-> FALSE, results |-> results, match_size |-> match_size,
          i |-> Len(results) - 1]

\* SearchResults::new: None for no result
SearchResults_new(results, match_size) ==
    IF results = <<>> THEN None
    ELSE [none |-> FALSE, results |-> results, match_size |-> match_size, i |-> 0]

search(buf, input) ==
    LET bytes == query_bytes(input) IN
    IF bytes.ok THEN SearchResults_new(find_iter(buf, bytes.bytes), Len(bytes.bytes))
    ELSE None

\* the comparator of match_len for results[x] (x counted from 0)
MatchOrdering(res, x, off) ==
    LET start == res.results[x + 1] IN
    IF off >= start /\ off < start + res.match_size THEN "Equal"
    ELSE IF off < start THEN "Greater"
    ELSE "Less"

\* slice::binary_search_by over results: the index found, or -1
RECURSIVE binary_search_by(_, _, _, _)
binary_search_by(res, off, left, right) ==
    IF left >= right THEN -1
    ELSE LET mid == left + ((right - left) \div 2)
             cmp == MatchOrdering(res, mid, off)
         IN  IF cmp = "Equal" THEN mid
             ELSE IF cmp = "Less" THEN binary_search_by(res, off, mid + 1, right)
             ELSE binary_search_by(res, off, left, mid)

\* match_len() that answers with the start of the match found
match_len_from_start(res, off) ==
    LET x == binary_search_by(res, off, 0, Len(res.results)) IN
    IF x < 0 THEN -1 ELSE res.match_size

\* match_len(offset): -1 stands for None
match_len(res, off) ==
    LET x == binary_search_by(res, off, 0, Len(res.results)) IN
    IF x < 0 THEN -1 ELSE res.match_size + res.results[x + 1] - off

\* next() that starts over after the last match
next_wrapping(res) == [res EXCEPT !.i = (res.i + 1) % Len(res.results)]

\* next() and prev(): the result set with the selection moved; result() is
\* the start of the match selected
next(res) == [res EXCEPT !.i = Min(Len(res.results) - 1, res.i + 1)]
\* prev() that forgets the first match
prev_dropping_first(res) ==
    [res EXCEPT !.results = IF Len(@) > 1 THEN Tail(@) ELSE @, !.i = SatSub(res.i, 1)]

prev(res) == [res EXCEPT !.i = SatSub(res.i, 1)]
result(res) == res.results[res.i + 1]

----------------------------------------------------------------------------
(* The prompt callbacks of screen_loop *)

\* usize::from_str_radix(digits, 16) once the sign is dropped: the value, or
\* -1 for an invalid digit or a value that does not fit usize
RECURSIVE HexValue(_, _)
HexValue(digits, acc) ==
    IF digits = <<>> THEN acc
    ELSE IF HexDigit(Head(digits)) < 0 THEN -1
    ELSE LET v == 16 * acc + HexDigit(Head(digits)) IN
         IF Ovf(v) THEN -1 ELSE HexValue(Tail(digits), v)

\* usize::from_str_radix(input, 16): -1 stands for Err
from_str_radix(input) ==
    IF input = <<>> THEN -1
    ELSE IF input[1] = 43 \/ input[1] = 45
         THEN IF Len(input) = 1 THEN -1
              ELSE IF input[1] = 43 THEN HexValue(Tail(input), 0)
              ELSE -1
    ELSE HexValue(input, 0)

\* input.strip_prefix("0x").unwrap_or(input)
StripHexPrefix(input) ==
    IF Len(input) >= 2 /\ input[1] = 48 /\ input[2] = 120
    THEN SubSeq(input, 3, Len(input))
    ELSE input

\* the 'j' callback: cursor_nibble = 2 * address when the input parses
jump(e, input, build) ==
    LET address == from_str_radix(StripHexPrefix(input)) IN
    IF address < 0 THEN e
    ELSE [e EXCEPT !.cursor_nibble = Wrap(2 * address),
                   !.panic = OvfPanics(build, 2 * address)]

\* input.eq_ignore_ascii_case(word)
ToLower(c) == IF c >= 65 /\ c <= 90 THEN c + 32 ELSE c
eq_ignore_ascii_case(input, word) ==
    /\ Len(input) = Len(word)
    /\ \A k \in 1..Len(input) : ToLower(input[k]) = ToLower(word[k])

\* the 'q' callback: the answers "yes" and "y" stop the session
QuitConfirmed(input) ==
    \/ eq_ignore_ascii_case(input, <<121, 101, 115>>)
    \/ eq_ignore_ascii_case(input, <<121>>)

----------------------------------------------------------------------------
(* The inputs explored.  A profile names the files opened, the terminal    *)
(* sizes, the keys pressed, the lines typed at a prompt, the outcomes of   *)
(* fs::write and the number of edits followed.                             *)

\* 6 and 5 rows show 2 rows and 1 row of data; below 5 rows draw() returns
\* at once, below 4 height - 4 underflows; 20 columns are fewer than the
\* quit prompt takes
Wide6 == [w |-> 80, h |-> 6]
Wide5 == [w |-> 80, h |-> 5]
Wide4 == [w |-> 80, h |-> 4]
Wide3 == [w |-> 80, h |-> 3]
Narrow5 == [w |-> 20, h |-> 5]

\* fs::write: done, refused (the file as it was), or failed after truncating
WriteOk == [ok |-> TRUE, n |-> 0]
WriteRefused == [ok |-> FALSE, n |-> -1]
WriteCut == [ok |-> FALSE, n |-> 0]

IsPrefix(p, l) == Len(p) <= Len(l) /\ SubSeq(l, 1, Len(p)) = p
Typeable(p, lines) == \E l \in lines : IsPrefix(p, l)
CharsOf(lines) == UNION {{l[k] : k \in 1..Len(l)} : l \in lines}

\* while draw() returns at once nothing clamps the cursor and the offset:
\* they are followed MaxBlind steps past either end of usize
Tracked(e) ==
    \/ e.panic
    \/ height >= 5
    \/ /\ \/ e.cursor_nibble < 2 * Len(e.buffer) + MaxBlind
          \/ e.cursor_nibble >= Usize - MaxBlind
       /\ \/ e.offset <= Len(e.buffer)
          \/ e.offset >= Usize - MaxBlind * BYTES_PER_ROW

----------------------------------------------------------------------------
(* The session: Screen::new, then screen_loop, one action per event *)

\* the FileEditor fields after a handler; an abort ends the session where the
\* handler stood.  The builds differ only where the debug build aborts: a
\* debug run that does not abort is the release run and is not taken twice.
Commit(e, build) ==
    /\ build = "release" \/ e.panic
    /\ buffer' = e.buffer
    /\ offset' = e.offset
    /\ cursor_nibble' = e.cursor_nibble
    /\ saved' = e.saved
    /\ undo_stack' = e.undo_stack
    /\ redo_stack' = e.redo_stack
    /\ status' = IF e.panic THEN "panicked" ELSE status

\* draw() in edit mode, as the edit-mode handlers call it
DrawEdit(e, build) == draw(e, height, width, "EditMode", editor_mode, 0, 0, build)

\* the handler that ran last: what it returned, a number it read before it
\* changed it, and the line it was given
Ran(op, did, n, line) == [op |-> op, did |-> did, n |-> n, line |-> line]
Did(op, did, n) == Ran(op, did, n, <<>>)

\* the buffers of the timeline once a write has replaced its future
Snapped(w) ==
    IF w.panic THEN snaps
    ELSE Append(SubSeq(snaps, 1, Len(undo_stack) + 1), w.buffer)

EditKeys == status = "running" /\ screen_mode = "EditMode"
HexKeys == EditKeys /\ editor_mode = "HexMode"

\* FileEditor::new and Screen::new, then the first draw() of screen_loop
Start(files, terminals) ==
    /\ buffer \in files
    /\ file = buffer
    /\ offset = 0
    /\ cursor_nibble = 0
    /\ saved = TRUE
    /\ undo_stack = <<>>
    /\ redo_stack = <<>>
    /\ \E t \in terminals : width = t.w /\ height = t.h
    /\ editor_mode = "HexMode"
    /\ screen_mode = "EditMode"
    /\ input_buffer = <<>>
    /\ input_callback = "None"
    /\ search_results = None
    /\ status = IF DrawEdit(Editor, "debug").panic THEN "panicked" ELSE "running"
    /\ snaps = <<buffer>>
    /\ last = Did("new", TRUE, 0)

\* 'a'..='f' | '0'..='9': write_nibble, then move_cursor(Right)
HexKey(nibble, build) ==
    /\ HexKeys
    /\ LET w == write_nibble(Editor, nibble)
           e == move_cursor(w, "Right", height, width, editor_mode, build)
       IN  /\ Tracked(e)
           /\ Commit(e, build)
           /\ snaps' = Snapped(w)
           /\ last' = Did("write_nibble", ~w.panic, Len(redo_stack))
    /\ UNCHANGED <<file, width, height, editor_mode, screen_mode, input_buffer,
                   input_callback, search_results>>

\* text mode, ' '..='~': write_byte, then move_cursor(Right)
TextKey(c, build) ==
    /\ EditKeys
    /\ editor_mode = "TextMode"
    /\ LET w == write_byte(Editor, c)
           e == move_cursor(w, "Right", height, width, editor_mode, build)
       IN  /\ Tracked(e)
           /\ Commit(e, build)
           /\ snaps' = Snapped(w)
           /\ last' = Did("write_byte", ~w.panic, Len(redo_stack))
    /\ UNCHANGED <<file, width, height, editor_mode, screen_mode, input_buffer,
                   input_callback, search_results>>

\* 'u' | 'z': undo(), and draw() when it returned true
UndoKey(build) ==
    /\ HexKeys
    /\ LET r == undo(Editor) IN
       /\ Commit(IF r.did THEN DrawEdit(r.e, build) ELSE r.e, build)
       /\ last' = Did("undo", r.did, 0)
    /\ UNCHANGED <<file, width, height, editor_mode, screen_mode, input_buffer,
                   input_callback, search_results, snaps>>

\* 'r': redo(), and draw() when it returned true
RedoKey(build) ==
    /\ HexKeys
    /\ LET r == redo(Editor) IN
       /\ Commit(IF r.did THEN DrawEdit(r.e, build) ELSE r.e, build)
       /\ last' = Did("redo", r.did, 0)
    /\ UNCHANGED <<file, width, height, editor_mode, screen_mode, input_buffer,
                   input_callback, search_results, snaps>>

\* 'w': save(), an error is printed; then draw()
SaveKey(out, build) ==
    /\ HexKeys
    /\ Commit(DrawEdit(save(Editor, out.ok), build), build)
    /\ file' = FileAfterWrite(file, buffer, out.ok, out.n)
    /\ last' = Did("save", out.ok, 0)
    /\ UNCHANGED <<width, height, editor_mode, screen_mode, input_buffer,
                   input_callback, search_results, snaps>>

\* read_user_input(prefix, callback): command mode, the callback kept, draw()
read_user_input(cb, build) ==
    /\ screen_mode' = "CommandMode"
    /\ input_callback' = cb
    /\ Commit(draw(Editor, height, width, "CommandMode", editor_mode,
                   Len(input_buffer), PrefixLen(cb), build), build)
    /\ last' = Did("prompt", TRUE, 0)
    /\ UNCHANGED <<file, width, height, editor_mode, input_buffer, snaps>>

\* 'j': the jump prompt
JumpKey(build) ==
    /\ HexKeys
    /\ read_user_input("jump", build)
    /\ UNCHANGED search_results

\* '/': the result set is dropped, then the search prompt
SearchKey(build) ==
    /\ HexKeys
    /\ search_results' = None
    /\ read_user_input("search", build)

\* 'q': stops when saved, else the quit prompt
QuitKey(build) ==
    /\ HexKeys
    /\ IF saved
       THEN /\ build = "release"
            /\ status' = "stopped"
            /\ last' = Did("quit", TRUE, 0)
            /\ UNCHANGED <<buffer, file, offset, cursor_nibble, saved, undo_stack,
                           redo_stack, width, height, editor_mode, screen_mode,
                           input_buffer, input_callback, search_results,
                           snaps>>
       ELSE /\ read_user_input("quit", build)
            /\ UNCHANGED search_results

\* 'n' and 'm': with a result set, next() or prev(), the cursor on the match
\* selected, draw()
NextKey(build) ==
    /\ HexKeys
    /\ search_results # None
    /\ LET res == next(search_results) IN
       /\ search_results' = res
       /\ Commit(DrawEdit([Editor EXCEPT !.cursor_nibble = 2 * result(res)], build), build)
    /\ last' = Did("next", TRUE, search_results.i)
    /\ UNCHANGED <<file, width, height, editor_mode, screen_mode, input_buffer,
                   input_callback, snaps>>

PrevKey(build) ==
    /\ HexKeys
    /\ search_results # None
    /\ LET res == prev(search_results) IN
       /\ search_results' = res
       /\ Commit(DrawEdit([Editor EXCEPT !.cursor_nibble = 2 * result(res)], build), build)
    /\ last' = Did("prev", TRUE, search_results.i)
    /\ UNCHANGED <<file, width, height, editor_mode, screen_mode, input_buffer,
                   input_callback, snaps>>

\* Right, Left | Backspace, Down, Up, PageDown, PageUp: move_cursor
MoveKey(movement, build) ==
    /\ EditKeys
    /\ LET e == move_cursor(Editor, movement, height, width, editor_mode, build) IN
       /\ Tracked(e)
       /\ Commit(e, build)
    /\ last' = Did("move_cursor", TRUE, 0)
    /\ UNCHANGED <<file, width, height, editor_mode, screen_mode, input_buffer,
                   input_callback, search_results, snaps>>

\* set_editor_mode() that leaves the cursor where it is
set_editor_mode_keeping_cursor(mode, build) ==
    /\ editor_mode # mode
    /\ editor_mode' = mode
    /\ Commit(draw(Editor, height, width, "EditMode", mode, 0, 0, build), build)
    /\ last' = Did("move_cursor", TRUE, 0)
    /\ UNCHANGED <<file, width, height, screen_mode, input_buffer, input_callback,
                   search_results, snaps>>

\* set_editor_mode(editor_mode): on a change, the cursor on an even nibble
\* and draw()
set_editor_mode(mode, build) ==
    /\ editor_mode # mode
    /\ editor_mode' = mode
    /\ Commit(draw([Editor EXCEPT !.cursor_nibble = @ - (@ % 2)], height, width,
                   "EditMode", mode, 0, 0, build), build)
    /\ last' = Did("move_cursor", TRUE, 0)
    /\ UNCHANGED <<file, width, height, screen_mode, input_buffer, input_callback,
                   search_results, snaps>>

\* Tab: cycle_editor_mode()
TabKey(build) ==
    /\ EditKeys
    /\ set_editor_mode(IF editor_mode = "HexMode" THEN "TextMode" ELSE "HexMode", build)

\* Esc in edit mode: set_editor_mode(HexMode)
EscKey(build) ==
    /\ EditKeys
    /\ set_editor_mode("HexMode", build)

CommandKeys == status = "running" /\ screen_mode = "CommandMode"

\* command mode, Char(c): pushed on the input line, draw()
CmdChar(c, lines, build) ==
    /\ CommandKeys
    /\ Typeable(Append(input_buffer, c), lines)
    /\ input_buffer' = Append(input_buffer, c)
    /\ Commit(draw(Editor, height, width, "CommandMode", editor_mode,
                   Len(input_buffer) + 1, PrefixLen(input_callback), build), build)
    /\ last' = Did("prompt", TRUE, 0)
    /\ UNCHANGED <<file, width, height, editor_mode, screen_mode, input_callback,
                   search_results, snaps>>

\* command mode, Esc: edit mode, the line cleared, the callback dropped, draw()
\* Esc that leaves the input line as it is
CmdEsc_keeping_line(build) ==
    /\ CommandKeys
    /\ screen_mode' = "EditMode"
    /\ input_buffer' = input_buffer
    /\ input_callback' = "None"
    /\ Commit(DrawEdit(Editor, build), build)
    /\ last' = Did("prompt", FALSE, 0)
    /\ UNCHANGED <<file, width, height, editor_mode, search_results, snaps>>

CmdEsc(build) ==
    /\ CommandKeys
    /\ screen_mode' = "EditMode"
    /\ input_buffer' = <<>>
    /\ input_callback' = "None"
    /\ Commit(DrawEdit(Editor, build), build)
    /\ last' = Did("prompt", FALSE, 0)
    /\ UNCHANGED <<file, width, height, editor_mode, search_results, snaps>>

\* command mode, Backspace: edit mode on an empty line (the callback stays),
\* else the last character removed; draw()
CmdBackspace(build) ==
    /\ CommandKeys
    /\ IF input_buffer = <<>>
       THEN /\ screen_mode' = "EditMode"
            /\ input_buffer' = input_buffer
            /\ Commit(DrawEdit(Editor, build), build)
       ELSE /\ screen_mode' = screen_mode
            /\ input_buffer' = Pop(input_buffer)
            /\ Commit(draw(Editor, height, width, "CommandMode", editor_mode,
                           Len(input_buffer) - 1, PrefixLen(input_callback), build), build)
    /\ last' = Did("prompt", input_buffer # <<>>, 0)
    /\ UNCHANGED <<file, width, height, editor_mode, input_callback,
                   search_results, snaps>>

\* command mode, Enter: the line and the callback are taken, the callback is
\* called with the line, edit mode, draw()
CmdEnter(build) ==
    /\ CommandKeys
    /\ LET command == input_buffer
           found == search(buffer, command)
           e == CASE input_callback = "jump" -> jump(Editor, command, build)
                  [] input_callback = "search" /\ found # None ->
                        [Editor EXCEPT !.cursor_nibble = 2 * result(found)]
                  [] OTHER -> Editor
           stop == input_callback = "quit" /\ QuitConfirmed(command)
           d == DrawEdit(e, build)
       IN  /\ build = "release" \/ d.panic
           /\ search_results' = IF input_callback = "search" THEN found
                                ELSE search_results
           /\ buffer' = d.buffer
           /\ offset' = d.offset
           /\ cursor_nibble' = d.cursor_nibble
           /\ saved' = d.saved
           /\ undo_stack' = d.undo_stack
           /\ redo_stack' = d.redo_stack
           /\ status' = IF d.panic THEN "panicked"
                        ELSE IF stop THEN "stopped" ELSE status
           /\ last' = Ran(input_callback, TRUE, 0, command)
    /\ input_buffer' = <<>>
    /\ input_callback' = "None"
    /\ screen_mode' = "EditMode"
    /\ UNCHANGED <<file, width, height, editor_mode, snaps>>

\* Event::Resize(new_width, new_height): the size is kept, draw()
Resize(t, build) ==
    /\ status = "running"
    /\ width' = t.w
    /\ height' = t.h
    /\ Commit(draw(Editor, t.h, t.w, screen_mode, editor_mode, Len(input_buffer),
                   PrefixLen(input_callback), build), build)
    /\ last' = Did("move_cursor", TRUE, 0)
    /\ UNCHANGED <<file, editor_mode, screen_mode, input_buffer, input_callback,
                   search_results, snaps>>

Movements == {"Right", "Left", "Up", "Down", "PageUp", "PageDown"}

Builds == {"debug", "release"}

\* one event of a session of profile P, handled by either build
Events(P) ==
    \E build \in Builds :
        \/ \E nibble \in P.nibbles :
              /\ Len(undo_stack) < P.edits
              /\ cursor_nibble \in P.editAt
              /\ HexKey(nibble, build)
        \/ \E c \in P.text :
              /\ Len(undo_stack) < P.edits
              /\ cursor_nibble \in P.editAt
              /\ TextKey(c, build)
        \/ UndoKey(build)
        \/ RedoKey(build)
        \/ \E out \in P.writes : SaveKey(out, build)
        \/ JumpKey(build)
        \/ SearchKey(build)
        \/ QuitKey(build)
        \/ NextKey(build)
        \/ PrevKey(build)
        \/ \E movement \in Movements : MoveKey(movement, build)
        \/ TabKey(build)
        \/ EscKey(build)
        \/ \E c \in CharsOf(P.lines) : CmdChar(c, P.lines, build)
        \/ CmdEsc(build)
        \/ CmdBackspace(build)
        \/ (input_buffer \in P.lines /\ CmdEnter(build))
        \/ \E t \in P.terminals : Resize(t, build)

\* The editing session: "aa" (0x61 0x61) in an 80x6 terminal; the hex keys
\* '1' and '6' (a '6' on a high nibble writes the byte that is there) and
\* the text key 'b' at any cursor position; the line "/aa"; the file cannot
\* be written
EditSession ==
    [files |-> {<<97, 97>>},
     terminals |-> {Wide6},
     nibbles |-> {1, 6},
     text |-> {98},
     editAt |-> Nat,
     lines |-> {<<47, 97, 97>>},
     writes |-> {WriteRefused},
     edits |-> MaxEdits]

Init == Start(EditSession.files, EditSession.terminals)
Next == Events(EditSession)
Spec == Init /\ [][Next]_vars

\* 17 bytes, two rows of data: zeros, the last byte 0x10
TwoRows == [k \in 1..17 |-> IF k = 17 THEN 16 ELSE 0]

\* 16 bytes, one full row of data: zeros, the last byte 0x10
FullRow == [k \in 1..16 |-> IF k = 16 THEN 16 ELSE 0]

\* The session on a full row: a file whose length is a multiple of 16 in
\* terminals of 5 and 3 rows, resized at will; one edit at the first byte;
\* the line "10"
RowSession ==
    [files |-> {FullRow},
     terminals |-> {Wide5, Wide3},
     nibbles |-> {1},
     text |-> {98},
     editAt |-> {0},
     lines |-> {<<49, 48>>},
     writes |-> {WriteRefused},
     edits |-> FewEdits]

\* The viewing session: two rows of data in terminals of 6, 5 and 3 rows,
\* resized at will; one edit, at the first byte or wherever the cursor has
\* left the buffer; the line "10" (the address 0x10, the pattern 0x10)
ViewSession ==
    [files |-> {TwoRows},
     terminals |-> {Wide6, Wide5, Wide3},
     nibbles |-> {1},
     text |-> {98},
     editAt |-> {0} \cup (34..Usize),
     lines |-> {<<49, 48>>},
     writes |-> {WriteRefused},
     edits |-> FewEdits]

\* The search session: "aaabaa" in a terminal of 6 or 3 rows; one edit at
\* the first byte; the lines "", "/", "/aa", "/g", "616", "6161" and "6g"
SearchSession ==
    [files |-> {<<97, 97, 97, 98, 97, 97>>},
     terminals |-> {Wide6, Wide3},
     nibbles |-> {1},
     text |-> {98},
     editAt |-> {0},
     lines |-> {<<>>, <<47>>, <<47, 97, 97>>, <<47, 103>>, <<54, 49, 54>>,
                <<54, 49, 54, 49>>, <<54, 103>>},
     writes |-> {WriteRefused},
     edits |-> FewEdits]

\* The saving session: "aa" in an 80x6 terminal; one edit at the first
\* byte; fs::write succeeds, is refused, or fails on a truncated file; the
\* lines "y" and "/a"
SaveSession ==
    [files |-> {<<97, 97>>},
     terminals |-> {Wide6},
     nibbles |-> {1},
     text |-> {98},
     editAt |-> {0},
     lines |-> {<<121>>, <<47, 97>>},
     writes |-> {WriteOk, WriteRefused, WriteCut},
     edits |-> FewEdits]

\* The session on an empty file: terminals of 6, 4 and 3 rows, resized at
\* will; an edit wherever the cursor is; every outcome of fs::write; the
\* lines "", "/", "10" and "y"
EmptySession ==
    [files |-> {<<>>},
     terminals |-> {Wide6, Wide4, Wide3},
     nibbles |-> {1},
     text |-> {98},
     editAt |-> Nat,
     lines |-> {<<>>, <<47>>, <<49, 48>>, <<121>>},
     writes |-> {WriteOk, WriteRefused, WriteCut},
     edits |-> FewEdits]

\* The quitting session: "aa" in a terminal of 80 or of 20 columns, resized
\* at will; one edit at the first byte; the answers "", "y", "YeS" and "n"
QuitSession ==
    [files |-> {<<97, 97>>},
     terminals |-> {Wide6, Narrow5},
     nibbles |-> {1},
     text |-> {98},
     editAt |-> {0},
     lines |-> {<<>>, <<121>>, <<89, 101, 83>>, <<110>>},
     writes |-> {WriteOk, WriteRefused},
     edits |-> FewEdits]

\* The jumping session: "aa" in an 80x6 terminal; one edit at the first
\* byte; the lines "", "1", "0x1", "ff", "g", "10000" (one more than
\* usize::MAX) and "8000" (the least address whose double overflows usize)
JumpSession ==
    [files |-> {<<97, 97>>},
     terminals |-> {Wide6},
     nibbles |-> {1},
     text |-> {98},
     editAt |-> {0},
     lines |-> {<<>>, <<49>>, <<48, 120, 49>>, <<102, 102>>, <<103>>,
                <<49, 48, 48, 48, 48>>, <<56, 48, 48, 48>>},
     writes |-> {WriteRefused},
     edits |-> FewEdits]

InitView == Start(ViewSession.files, ViewSession.terminals)
NextView == Events(ViewSession)
SpecView == InitView /\ [][NextView]_vars

InitSave == Start(SaveSession.files, SaveSession.terminals)
NextSave == Events(SaveSession)
SpecSave == InitSave /\ [][NextSave]_vars

InitEmpty == Start(EmptySession.files, EmptySession.terminals)
NextEmpty == Events(EmptySession)
SpecEmpty == InitEmpty /\ [][NextEmpty]_vars

InitRow == Start(RowSession.files, RowSession.terminals)
NextRow == Events(RowSession)
SpecRow == InitRow /\ [][NextRow]_vars

InitQuit == Start(QuitSession.files, QuitSession.terminals)
NextQuit == Events(QuitSession)
SpecQuit == InitQuit /\ [][NextQuit]_vars

InitJump == Start(JumpSession.files, JumpSession.terminals)
NextJump == Events(JumpSession)
SpecJump == InitJump /\ [][NextJump]_vars

InitSearch == Start(SearchSession.files, SearchSession.terminals)
NextSearch == Events(SearchSession)
SpecSearch == InitSearch /\ [][NextSearch]_vars

----------------------------------------------------------------------------
(* The edit history.  snaps[i] is the buffer after the first i - 1 edits   *)
(* of the current timeline: snaps[1] is the buffer before any of them.     *)

\* C1: a write followed by undo() leaves the buffer equal to its contents
\* before the write, and redo() then leaves it equal to its contents after
\* the write; k writes followed by k undos restore the original buffer and
\* k redos the buffer after the writes.  With n records on the undo stack
\* the buffer is the one that the n-th write of the timeline left.
UndoRedoRoundTrip ==
    /\ Len(snaps) = Len(undo_stack) + Len(redo_stack) + 1
    /\ buffer = snaps[Len(undo_stack) + 1]

\* two writes, both undone and both redone; the buffer is the one the second
\* write left and differs from the one before either write
UndoRedoRoundTripSeen ==
    /\ status = "running"
    /\ last.op = "redo" /\ last.did
    /\ Len(undo_stack) = 2 /\ redo_stack = <<>>
    /\ buffer = snaps[3] /\ buffer # snaps[1] /\ buffer # snaps[2]

\* C2: a write performed after one or more undos empties the redo stack: a
\* redo() issued after that write returns false and changes nothing.
WriteClearsRedo ==
    (last.op \in {"write_nibble", "write_byte"} /\ last.did) =>
        /\ redo_stack = <<>>
        /\ redo(Editor) = [e |-> Editor, did |-> FALSE]

\* a write that found an undone edit on the redo stack
WriteClearsRedoSeen ==
    /\ status = "running"
    /\ last.op \in {"write_nibble", "write_byte"} /\ last.did /\ last.n >= 1
    /\ redo_stack = <<>>

----------------------------------------------------------------------------
(* Cursor and viewport.  The editor waits for the next event in the states *)
(* whose status is "running".                                              *)

\* C3: in every state in which the editor waits for the next event,
\* 0 <= cursor_nibble <= 2 * L - 1 for a buffer of length L > 0, whatever
\* the events before, a resize to any height included.
CursorInBuffer ==
    (status = "running" /\ Len(buffer) > 0) =>
        (cursor_nibble >= 0 /\ cursor_nibble <= 2 * Len(buffer) - 1)

\* C4: after a navigation event and the redraw the row of the cursor is in
\* the view: offset / 16 <= cursor_nibble / 32 < offset / 16 + R, with
\* R = height - 4.  draw() redraws when the terminal has 5 rows or more, and
\* then every handler that changes the cursor or the size ends with it.
CursorRowVisible ==
    (status = "running" /\ height >= 5) =>
        /\ offset \div BYTES_PER_ROW <= cursor_nibble \div (2 * BYTES_PER_ROW)
        /\ cursor_nibble \div (2 * BYTES_PER_ROW) < offset \div BYTES_PER_ROW + (height - 4)

\* the cursor was moved below a view of one row, which followed it
CursorRowVisibleSeen ==
    /\ status = "running" /\ height = 5
    /\ last.op = "move_cursor"
    /\ cursor_nibble \div (2 * BYTES_PER_ROW) = 1
    /\ offset = BYTES_PER_ROW

\* C5: after every redraw the offset is a multiple of 16 and
\* 0 <= offset <= L - (L mod 16).
OffsetOnRow ==
    (status = "running" /\ height >= 5) =>
        /\ offset % BYTES_PER_ROW = 0
        /\ 0 <= offset
        /\ offset <= Len(buffer) - (Len(buffer) % BYTES_PER_ROW)

\* the view of two rows was brought to the last row, the largest offset
OffsetOnRowSeen ==
    /\ status = "running" /\ height = 6
    /\ last.op = "move_cursor"
    /\ offset = Len(buffer) - (Len(buffer) % BYTES_PER_ROW)
    /\ offset > 0

----------------------------------------------------------------------------
(* Search.  After Enter at the search prompt, last.line is the query and   *)
(* search_results the result set of the buffer as it is.                   *)

\* the bytes of a pattern found at its first reported start
PatternFound ==
    SubSeq(buffer, search_results.results[1] + 1,
           search_results.results[1] + search_results.match_size)

\* C6: a search reports every position of the buffer at which the pattern
\* occurs as a contiguous substring, occurrences that overlap each other
\* included ("aa" in "aaa": 0 and 1).
EveryOccurrenceReported ==
    (status = "running" /\ last.op = "search" /\ search_results # None) =>
        \A idx \in 0..Len(buffer) :
            OccursAt(buffer, PatternFound, idx) =>
                \E x \in 1..Len(search_results.results) :
                    search_results.results[x] = idx

\* C7: for a result set of pattern length k, match_len(offset) is None for
\* an offset in no span [s, s + k) of the set and Some for an offset in a
\* span; it is k for the first byte of a match; and Some(n) has
\* 1 <= n <= k, n the number of bytes from the offset to the end of a span
\* that holds it.
MatchLenOfSpan ==
    search_results # None =>
        LET k == search_results.match_size
            starts == {search_results.results[x] : x \in 1..Len(search_results.results)}
            Holds(s, off) == s <= off /\ off < s + k
        IN  \A off \in 0..(Len(buffer) + 1) :
                LET n == match_len(search_results, off) IN
                /\ (\A s \in starts : ~Holds(s, off)) => n = -1
                /\ (\E s \in starts : Holds(s, off)) => n # -1
                /\ (off \in starts /\ k >= 1) => n = k
                /\ n # -1 => /\ 1 <= n /\ n <= k
                              /\ \E s \in starts : Holds(s, off) /\ n = s + k - off

\* two matches of two bytes with a gap between them: an offset is the
\* second byte of a match, and another lies in neither
MatchLenOfSpanSeen ==
    /\ status = "running"
    /\ search_results # None
    /\ search_results.results = <<0, 4>> /\ search_results.match_size = 2
    /\ match_len(search_results, 5) = 1
    /\ match_len(search_results, 2) = -1

\* C8: a query that starts with '/' has the bytes after it as its pattern;
\* any other query is decoded as hexadecimal, two digits a byte, and is
\* rejected (no result set) when the number of its digits is odd or a
\* character of it is no hexadecimal digit.
QueryCompiled ==
    (status = "running" /\ last.op = "search") =>
        LET q == last.line
            digits == {48, 49, 50, 51, 52, 53, 54, 55, 56, 57} \cup
                      {97, 98, 99, 100, 101, 102} \cup {65, 66, 67, 68, 69, 70}
            value(c) == IF c <= 57 THEN c - 48
                        ELSE IF c >= 97 THEN c - 87 ELSE c - 55
            literal == q # <<>> /\ q[1] = 47
            rejected == Len(q) % 2 = 1 \/ \E x \in 1..Len(q) : q[x] \notin digits
            pattern == IF literal THEN SubSeq(q, 2, Len(q))
                       ELSE [x \in 1..(Len(q) \div 2) |->
                                16 * value(q[2 * x - 1]) + value(q[2 * x])]
        IN  IF ~literal /\ rejected
            THEN search_results = None
            ELSE search_results = SearchResults_new(find_iter(buffer, pattern),
                                                    Len(pattern))

\* the query "6161" found the bytes 0x61 0x61
QueryCompiledSeen ==
    /\ status = "running" /\ last.op = "search"
    /\ last.line = <<54, 49, 54, 49>>
    /\ search_results # None
    /\ PatternFound = <<97, 97>>

\* C9 as stated: after next() or prev() on a result set of n >= 1 matches
\* 0 <= i <= n - 1, next() has set i to min(i + 1, n - 1) and prev() to
\* max(i - 1, 0), and the cursor is on the match selected:
\* cursor_nibble = 2 * offset.  last.n is i before the call.
SelectionMovesCursor ==
    (status = "running" /\ last.op \in {"next", "prev"}) =>
        LET n == Len(search_results.results)
            i == search_results.i
        IN  /\ n >= 1 /\ 0 <= i /\ i <= n - 1
            /\ last.op = "next" => i = Min(last.n + 1, n - 1)
            /\ last.op = "prev" => i = Max(last.n - 1, 0)
            /\ cursor_nibble = 2 * search_results.results[i + 1]

\* C9, amended: the same, but the redraw keeps the cursor in the buffer: a
\* match of the empty pattern at the end of the buffer, offset L, leaves
\* the cursor on the last nibble, 2 * L - 1.
SelectionMovesCursorClamped ==
    (status = "running" /\ last.op \in {"next", "prev"}) =>
        LET n == Len(search_results.results)
            i == search_results.i
            at == 2 * search_results.results[i + 1]
        IN  /\ n >= 1 /\ 0 <= i /\ i <= n - 1
            /\ last.op = "next" => i = Min(last.n + 1, n - 1)
            /\ last.op = "prev" => i = Max(last.n - 1, 0)
            /\ cursor_nibble = IF height >= 5 THEN Min(at, 2 * Len(buffer) - 1) ELSE at

\* next() on the last of two matches: the selection stays, the cursor is on it
SelectionMovesCursorSeen ==
    /\ status = "running" /\ last.op = "next"
    /\ Len(search_results.results) = 2
    /\ last.n = 1 /\ search_results.i = 1
    /\ cursor_nibble = 2 * search_results.results[2]

----------------------------------------------------------------------------
(* Saving *)

\* C10: save() that succeeds leaves the file equal to the whole buffer and
\* the dirty flag cleared (saved); save() that fails leaves the buffer, the
\* undo and redo stacks and the dirty flag as they were before the call,
\* and the session goes on.
SaveCommitsOrKeeps ==
    [][last'.op = "save" =>
          /\ status' = "running"
          /\ buffer' = buffer
          /\ undo_stack' = undo_stack
          /\ redo_stack' = redo_stack
          /\ IF last'.did
             THEN file' = buffer /\ Len(file') = Len(buffer) /\ saved'
             ELSE saved' = saved]_vars

\* an edit was saved and then undone, and the next save failed: the file
\* holds the edit, the buffer does not, and the dirty flag is still set
SaveCommitsOrKeepsSeen ==
    /\ status = "running" /\ last.op = "save" /\ ~last.did
    /\ Len(snaps) = 2 /\ file = snaps[2] /\ buffer = snaps[1]
    /\ file # buffer /\ ~saved

----------------------------------------------------------------------------
(* Writes, undo and redo, step by step.  A step whose last'.op names a     *)
(* handler is a step of that handler; last'.did is what it returned (for a *)
(* write: that it did not abort on the buffer index).                      *)

\* C11: write_nibble(v), 0 <= v <= 15, at cursor c targets the byte c / 2:
\* for an even c its high 4 bits become v and its low 4 bits stay, for an
\* odd c its low 4 bits become v and its high 4 bits stay; the edit
\* recorded holds the whole byte before and after; the session is dirty.
WriteNibbleHalf ==
    [][(last'.op = "write_nibble" /\ last'.did) =>
          LET position == cursor_nibble \div 2
              before == buffer[position + 1]
              after == buffer'[position + 1]
          IN  /\ \E v \in 0..15 :
                    IF cursor_nibble % 2 = 0
                    THEN after \div 16 = v /\ after % 16 = before % 16
                    ELSE after % 16 = v /\ after \div 16 = before \div 16
              /\ \A v \in 0..15 :
                    (\E b \in Builds : HexKey(v, b)) =>
                        IF cursor_nibble % 2 = 0 THEN after \div 16 = v
                        ELSE after % 16 = v
              /\ Top(undo_stack') =
                    [position |-> position, prev_byte |-> before, new_byte |-> after]
              /\ ~saved']_vars

\* a '6' was written on the low nibble of 0x61, the first byte: 0x66
WriteNibbleHalfSeen ==
    /\ status = "running"
    /\ last.op = "write_nibble" /\ last.did
    /\ cursor_nibble = 2
    /\ Top(undo_stack) = [position |-> 0, prev_byte |-> 97, new_byte |-> 102]
    /\ buffer[1] = 102 /\ ~saved

\* C12: no operation changes the length of the buffer; a write changes at
\* most the byte at cursor_nibble / 2, undo and redo at most the byte at
\* the position of the edit popped; every other operation changes no byte.
OneByteChanges ==
    [][/\ Len(buffer') = Len(buffer)
       /\ LET changed == {k \in 1..Len(buffer) : buffer'[k] # buffer[k]}
              target ==
                  CASE last'.op \in {"write_nibble", "write_byte"} ->
                          {cursor_nibble \div 2 + 1}
                    [] last'.op = "undo" /\ last'.did -> {Top(undo_stack).position + 1}
                    [] last'.op = "redo" /\ last'.did -> {Top(redo_stack).position + 1}
                    [] OTHER -> {}
          IN  changed \subseteq target]_vars

\* an undo took the second byte back and left the first, edited before it
OneByteChangesSeen ==
    /\ status = "running"
    /\ last.op = "undo" /\ last.did
    /\ Len(snaps) = 3 /\ Len(undo_stack) = 1
    /\ snaps[3][2] # snaps[2][2]
    /\ buffer = snaps[2] /\ buffer[1] # snaps[1][1]

\* C13: undo() on an empty undo stack and redo() on an empty redo stack
\* return false and leave buffer, stacks, cursor and dirty flag as they
\* were; on a stack that is not empty they return true and move exactly one
\* edit record from one stack to the other.
UndoRedoMoveOneRecord ==
    [][/\ (last'.op = "undo" /\ undo_stack = <<>>) =>
              ~last'.did /\ UNCHANGED <<buffer, undo_stack, redo_stack, cursor_nibble, saved>>
       /\ (last'.op = "redo" /\ redo_stack = <<>>) =>
              ~last'.did /\ UNCHANGED <<buffer, undo_stack, redo_stack, cursor_nibble, saved>>
       /\ (last'.op = "undo" /\ undo_stack # <<>>) =>
              /\ last'.did
              /\ undo_stack' = Pop(undo_stack)
              /\ redo_stack' = Append(redo_stack, Top(undo_stack))
       /\ (last'.op = "redo" /\ redo_stack # <<>>) =>
              /\ last'.did
              /\ redo_stack' = Pop(redo_stack)
              /\ undo_stack' = Append(undo_stack, Top(redo_stack))]_vars

\* a redo found nothing to redo and kept the state; the undo stack holds
\* an edit
UndoRedoMoveOneRecordSeen ==
    /\ status = "running"
    /\ last.op = "redo" /\ ~last.did
    /\ redo_stack = <<>> /\ Len(undo_stack) = 1

\* C14: after every undo() or redo() that returned true the cursor is on
\* nibble 0 of the byte of the edit: cursor_nibble = 2 * edit.position,
\* whatever nibble the write was made on.
CursorOnEditedByte ==
    (status = "running" /\ last.did) =>
        /\ last.op = "undo" => cursor_nibble = 2 * Top(redo_stack).position
        /\ last.op = "redo" => cursor_nibble = 2 * Top(undo_stack).position

\* the low nibble of the second byte was written, the cursor went on to
\* nibble 0 and then the edit was undone and redone: the cursor is on nibble 2
CursorOnEditedByteSeen ==
    /\ status = "running"
    /\ last.op = "redo" /\ last.did
    /\ Top(undo_stack).position = 1
    /\ Top(undo_stack).new_byte % 16 # Top(undo_stack).prev_byte % 16
    /\ cursor_nibble = 2

----------------------------------------------------------------------------
(* Paging and modes *)

\* C15: with a buffer shorter than one page (L <= 16 * R, R = height - 4)
\* PageDown and the redraw leave the cursor in the last row of the buffer
\* and the offset in [0, L - L mod 16]; PageUp and the redraw never leave a
\* negative offset or cursor and never abort the session, also at offset 0
\* or with the cursor in the first page.
PagingSaturates ==
    [][/\ (/\ \E b \in Builds : MoveKey("PageDown", b)
           /\ Len(buffer) <= BYTES_PER_ROW * (height - 4)) =>
              /\ status' = "running"
              /\ cursor_nibble' \div (2 * BYTES_PER_ROW) =
                     (Len(buffer) - 1) \div BYTES_PER_ROW
              /\ 0 <= offset'
              /\ offset' <= Len(buffer) - (Len(buffer) % BYTES_PER_ROW)
       /\ (\E b \in Builds : MoveKey("PageUp", b)) =>
              /\ status' = "running"
              /\ 0 <= offset' /\ offset' < Usize \div 2
              /\ 0 <= cursor_nibble' /\ cursor_nibble' < Usize \div 2]_vars

----------------------------------------------------------------------------
(* The window read by the redraw *)

\* C17: read_bytes(n), called by the redraw with n = 16 * (height - 4),
\* returns a slice that starts at the offset, holds at most n bytes, and is
\* shorter than n only when the buffer ends before offset + n.
WindowAtMostRequested ==
    (status = "running" /\ height >= 5) =>
        LET n == BYTES_PER_ROW * (height - 4)
            window == read_bytes(Editor, n, "release")
        IN  /\ ~window.panic
            /\ window.slice = SubSeq(buffer, offset + 1, offset + Len(window.slice))
            /\ Len(window.slice) <= n
            /\ Len(window.slice) < n => Len(buffer) < offset + n

----------------------------------------------------------------------------
(* The life of a result set *)

\* C18: in a result set created by a search the starts of the matches are
\* strictly increasing, each start s has s + pattern_len <= L and
\* buffer[s .. s + pattern_len) equal to the pattern; the selection index
\* starts at 0 and the cursor is moved to the first match.
ResultSetWellFormed ==
    (status = "running" /\ last.op = "search" /\ search_results # None) =>
        LET pattern == query_bytes(last.line).bytes
            starts == search_results.results
        IN  /\ search_results.match_size = Len(pattern)
            /\ \A x \in 1..(Len(starts) - 1) : starts[x] < starts[x + 1]
            /\ \A x \in 1..Len(starts) :
                  /\ starts[x] + Len(pattern) <= Len(buffer)
                  /\ SubSeq(buffer, starts[x] + 1, starts[x] + Len(pattern)) = pattern
            /\ search_results.i = 0
            /\ cursor_nibble = 2 * starts[1]

\* "aa" was searched with the first byte edited: two matches, the first at
\* 1, where the cursor is
ResultSetWellFormedSeen ==
    /\ status = "running" /\ last.op = "search"
    /\ search_results # None
    /\ search_results.results = <<1, 4>> /\ search_results.i = 0
    /\ cursor_nibble = 2

\* a query that is not '/' and bytes, and is not hexadecimal digits in pairs
InvalidQuery(q) ==
    /\ ~(q # <<>> /\ q[1] = 47)
    /\ \/ Len(q) % 2 = 1
       \/ \E x \in 1..Len(q) : HexDigit(q[x]) < 0

\* C19: an invalid query submitted (odd length, or not hexadecimal) has the
\* effect of a valid query with no match: no result set afterwards; cursor,
\* buffer, history and dirty flag unchanged; the session goes on in edit
\* mode.
InvalidQueryAsNoMatch ==
    [][(/\ last'.op = "search"
        /\ \/ InvalidQuery(last'.line)
           \/ find_iter(buffer, query_bytes(last'.line).bytes) = <<>>) =>
          /\ search_results' = None
          /\ UNCHANGED <<cursor_nibble, buffer, undo_stack, redo_stack, saved>>
          /\ screen_mode' = "EditMode"
          /\ status' = "running"]_vars

\* "616" was submitted with an edit unsaved and the cursor off the start
InvalidQueryAsNoMatchSeen ==
    /\ status = "running" /\ screen_mode = "EditMode"
    /\ last.op = "search" /\ last.line = <<54, 49, 54>>
    /\ search_results = None
    /\ undo_stack # <<>> /\ ~saved /\ cursor_nibble > 0

\* the offsets and the pattern length of a result set, not its selection
Matches(res) == IF res = None THEN None ELSE [res EXCEPT !.i = 0]

\* C20 as stated: a search submitted replaces the result set; between
\* submissions no operation changes the match offsets and the pattern
\* length, and only next() and prev() change the selection index.
ResultSetKept ==
    [][/\ last'.op = "search" =>
              search_results' = search(buffer, last'.line)
       /\ last'.op # "search" =>
              Matches(search_results') = Matches(search_results)
       /\ last'.op \notin {"search", "next", "prev"} =>
              search_results' = search_results]_vars

\* C20, amended: the same, but the '/' key drops the result set when it
\* opens the search prompt, before anything is submitted (and so also when
\* the prompt is left without a submission).
ResultSetKeptUntilPrompt ==
    [][/\ last'.op = "search" =>
              search_results' = search(buffer, last'.line)
       /\ (screen_mode = "EditMode" /\ input_callback' = "search"
              /\ last'.op = "prompt") =>
              search_results' = None
       /\ (last'.op # "search"
              /\ ~(screen_mode = "EditMode" /\ input_callback' = "search"
                     /\ last'.op = "prompt")) =>
              /\ Matches(search_results') = Matches(search_results)
              /\ last'.op \notin {"next", "prev"} =>
                    search_results' = search_results]_vars

\* an edit was undone with the second of two matches selected: the result
\* set is the one the search made, of a buffer that is no longer
ResultSetKeptUntilPromptSeen ==
    /\ status = "running"
    /\ last.op = "undo" /\ last.did
    /\ search_results # None
    /\ search_results.results = <<1, 4>> /\ search_results.i = 1
    /\ search(buffer, <<47, 97, 97>>).results = <<0, 4>>

----------------------------------------------------------------------------
(* The edit records *)

\* the edits of the timeline in the order they were made: the undo stack
\* from the bottom, then the redo stack from the top
Timeline ==
    undo_stack \o [j \in 1..Len(redo_stack) |-> redo_stack[Len(redo_stack) + 1 - j]]

\* C21: for every edit record on the undo or the redo stack, prev_byte is
\* the byte the buffer held at position right before the write that made
\* the record and new_byte the byte it held right after; position < L.
EditRecordsTrue ==
    /\ Len(Timeline) = Len(snaps) - 1
    /\ \A x \in 1..Len(Timeline) :
          /\ Timeline[x].position < Len(buffer)
          /\ Timeline[x].prev_byte = snaps[x][Timeline[x].position + 1]
          /\ Timeline[x].new_byte = snaps[x + 1][Timeline[x].position + 1]

\* two edits of the same byte, the second undone: a record on each stack,
\* the one on the redo stack made on the byte the other had written
EditRecordsTrueSeen ==
    /\ status = "running"
    /\ Len(undo_stack) = 1 /\ Len(redo_stack) = 1
    /\ undo_stack[1].position = redo_stack[1].position
    /\ undo_stack[1].prev_byte # undo_stack[1].new_byte
    /\ redo_stack[1].prev_byte = undo_stack[1].new_byte
    /\ redo_stack[1].new_byte # redo_stack[1].prev_byte

----------------------------------------------------------------------------
(* The empty file *)

\* C22: a session on a zero-length file never reaches a state in which a
\* write, an undo or a redo has been applied: no edit record is ever made,
\* the buffer stays empty and unmodified, and a write that is attempted
\* ends the session at once, in a terminal of every height.
EmptyFileNeverEdited ==
    /\ buffer = <<>>
    /\ undo_stack = <<>> /\ redo_stack = <<>>
    /\ snaps = <<(<<>>)>>
    /\ saved
    /\ last.op \in {"write_nibble", "write_byte"} => ~last.did /\ status = "panicked"
    /\ last.op \in {"undo", "redo"} => ~last.did
    /\ height >= 5 => status = "panicked"

\* a byte typed on the empty file in a terminal too small to be drawn
EmptyFileNeverEditedSeen ==
    /\ buffer = <<>>
    /\ height < 5
    /\ last.op = "write_byte"
    /\ status = "panicked"

----------------------------------------------------------------------------
(* The arrow keys *)

\* the step of an arrow key in nibbles, signed
StepOf(movement, mode) ==
    LET xmov == IF mode = "HexMode" THEN 1 ELSE 2 IN
    CASE movement = "Right" -> xmov
      [] movement = "Left" -> 0 - xmov
      [] movement = "Up" -> 0 - 2 * BYTES_PER_ROW
      [] movement = "Down" -> 2 * BYTES_PER_ROW

\* C23: Right, Left, Up and Down in a terminal that is redrawn leave the
\* cursor at clamp(c + d, 0, 2L - 1) and the session running: Left and Up
\* from the first row stop at 0, Right and Down past the end stop at
\* 2L - 1.
ArrowKeysClamp ==
    [][\A movement \in {"Right", "Left", "Up", "Down"} :
          (height >= 5 /\ \E b \in Builds : MoveKey(movement, b)) =>
              /\ status' = "running"
              /\ cursor_nibble' = Clamp(cursor_nibble + StepOf(movement, editor_mode),
                                        0, 2 * Len(buffer) - 1)]_vars

----------------------------------------------------------------------------
(* The page keys, away from the ends *)

\* the rows of data on the screen
PageRows == height - 4

\* where the cursor is drawn
CursorCell(c, o) == coords_for_cursor(c, o, editor_mode)

\* C24: in a terminal that is redrawn, PageDown with c + 32R <= 2L - 1
\* moves the cursor by exactly 32R nibbles and the offset by exactly 16R
\* bytes, and PageUp with c >= 32R and offset >= 16R moves them back by as
\* much; the cursor stays in the same row and column of the screen.
PageKeysExact ==
    [][height >= 5 =>
        /\ ( /\ \E b \in Builds : MoveKey("PageDown", b)
             /\ cursor_nibble + 32 * PageRows <= 2 * Len(buffer) - 1 ) =>
                /\ status' = "running"
                /\ cursor_nibble' = cursor_nibble + 32 * PageRows
                /\ offset' = offset + 16 * PageRows
                /\ CursorCell(cursor_nibble', offset') = CursorCell(cursor_nibble, offset)
        /\ ( /\ \E b \in Builds : MoveKey("PageUp", b)
             /\ cursor_nibble >= 32 * PageRows
             /\ offset >= 16 * PageRows ) =>
                /\ status' = "running"
                /\ cursor_nibble' = cursor_nibble - 32 * PageRows
                /\ offset' = offset - 16 * PageRows
                /\ CursorCell(cursor_nibble', offset') = CursorCell(cursor_nibble, offset)
    ]_vars

\* a page down from the first row of two, then a page up from the second
PageKeysExactSeen ==
    /\ status = "running"
    /\ height = 5
    /\ Len(buffer) = 17
    /\ last.op = "move_cursor"
    /\ cursor_nibble = 33 /\ offset = 16
    /\ editor_mode = "HexMode"

----------------------------------------------------------------------------
(* The dirty flag *)

\* C25: while saved is true the buffer is the content last loaded from or
\* last successfully written to the file: the session starts clean on the
\* content loaded; only a successful save makes it clean, and the file then
\* holds the buffer; the buffer does not change while the session stays
\* clean; every write and every undo or redo that took a record makes it
\* dirty.
CleanMeansOnDisk ==
    /\ (saved = TRUE /\ buffer = file)
    /\ [][/\ (saved' /\ ~saved) => (last'.op = "save" /\ last'.did)
          /\ (last'.op = "save" /\ last'.did) => (saved' /\ file' = buffer')
          /\ (saved /\ saved') => buffer' = buffer
          /\ (saved' /\ last'.op # "save") => file' = file
          /\ (last'.op \in {"write_nibble", "write_byte", "undo", "redo"} /\ last'.did)
                => ~saved'
         ]_vars

\* an edit saved, undone, and the undone buffer saved again
CleanMeansOnDiskSeen ==
    /\ status = "running"
    /\ saved /\ last.op = "save" /\ last.did
    /\ Len(snaps) = 2 /\ buffer = snaps[1] /\ buffer # snaps[2]
    /\ redo_stack # <<>>
    /\ file = buffer

----------------------------------------------------------------------------
(* Quitting *)

\* a key that ends the prompt: Enter, Esc, or Backspace on the empty line
PromptEnds ==
    \E b \in Builds : CmdEnter(b) \/ CmdEsc(b) \/ CmdBackspace(b)

\* C26: the quit key stops a clean session; in a dirty session it only
\* opens the prompt "quit without saving? " and the session goes on; the
\* answer "y" or "yes" in any letter case stops the session, and every
\* other answer, Esc or an empty answer leaves the session running with
\* the buffer, the history and the dirty flag unchanged.
QuitOnlyWhenAsked ==
    [][/\ (\E b \in Builds : QuitKey(b)) =>
              IF saved THEN status' = "stopped"
              ELSE /\ status' = "running"
                   /\ screen_mode' = "CommandMode"
                   /\ input_callback' = "quit"
       /\ (screen_mode = "CommandMode" /\ input_callback = "quit" /\ PromptEnds) =>
              IF last'.op = "quit" /\ QuitConfirmed(input_buffer)
              THEN status' = "stopped"
              ELSE /\ status' = "running"
                   /\ UNCHANGED <<buffer, undo_stack, redo_stack, saved>>
      ]_vars

----------------------------------------------------------------------------
(* The prompt *)

\* the prompt a key opens, "None" for a step that opens none
Opened ==
    CASE \E b \in Builds : JumpKey(b) -> "jump"
      [] \E b \in Builds : SearchKey(b) -> "search"
      [] ~saved /\ \E b \in Builds : QuitKey(b) -> "quit"
      [] OTHER -> "None"

\* C27: a prompt key enters command mode with an empty input line and its
\* own handler pending; a key typed into the prompt (a character,
\* Backspace, Esc) changes neither buffer, history nor cursor, and keeps
\* the handler while the prompt stays open; Enter hands the pending handler
\* the line as typed, once (the handler is taken), and returns to edit
\* mode; Esc and Backspace on the empty line return to edit mode with no
\* handler run; no handler runs from edit mode, so none runs for a prompt
\* that was cancelled.
PromptProtocol ==
    [][/\ Opened # "None" =>
              /\ screen_mode = "EditMode" /\ screen_mode' = "CommandMode"
              /\ input_buffer' = <<>>
              /\ input_callback' = Opened
       /\ (screen_mode = "EditMode" /\ screen_mode' = "CommandMode") => Opened # "None"
       /\ (screen_mode = "CommandMode" /\ last'.op = "prompt") =>
              /\ UNCHANGED <<buffer, undo_stack, redo_stack, cursor_nibble, saved>>
              /\ screen_mode' = "CommandMode" => input_callback' = input_callback
              /\ screen_mode' = "EditMode" =>
                     (input_buffer = <<>> \/ (\E b \in Builds : CmdEsc(b)))
       /\ (screen_mode = "CommandMode" /\ last'.op \notin {"prompt", "move_cursor"}) =>
              /\ last'.op = input_callback
              /\ last'.line = input_buffer
              /\ input_callback' = "None"
              /\ input_buffer' = <<>>
              /\ screen_mode' = "EditMode"
       /\ screen_mode = "EditMode" =>
              /\ last'.op \notin {"jump", "search"}
              /\ last'.op = "quit" => saved
      ]_vars

\* the jump prompt answered "y" in a dirty session: the jump handler has
\* run on the line "y", the prompt is closed and the session goes on
PromptProtocolSeen ==
    /\ status = "running"
    /\ ~saved
    /\ last.op = "jump" /\ last.line = <<121>>
    /\ screen_mode = "EditMode"
    /\ input_callback = "None" /\ input_buffer = <<>>

----------------------------------------------------------------------------
(* The history and the buffer *)

\* buf with the new bytes of edits[i], edits[i + 1], ... written in turn
RECURSIVE Replay(_, _, _)
Replay(buf, edits, i) ==
    IF i > Len(edits) THEN buf
    ELSE Replay(SetByte(buf, edits[i].position, edits[i].new_byte), edits, i + 1)

\* the redo stack from the top to the bottom
RedoOrder == [j \in 1..Len(redo_stack) |-> redo_stack[Len(redo_stack) + 1 - j]]

\* C28: the buffer is the initial buffer with the edits of the undo stack
\* applied in push order; applying the edits of the redo stack from the top
\* to the bottom gives back the buffer as it was before the undos; the top
\* undo record has buffer[position] = new_byte, the top redo record has
\* buffer[position] = prev_byte.
HistoryConsistent ==
    /\ buffer = Replay(snaps[1], undo_stack, 1)
    /\ Replay(buffer, RedoOrder, 1) = snaps[Len(snaps)]
    /\ undo_stack # <<>> =>
          buffer[Top(undo_stack).position + 1] = Top(undo_stack).new_byte
    /\ redo_stack # <<>> =>
          buffer[Top(redo_stack).position + 1] = Top(redo_stack).prev_byte

\* edits of two different bytes, the second undone
HistoryConsistentSeen ==
    /\ status = "running"
    /\ Len(undo_stack) = 1 /\ Len(redo_stack) = 1
    /\ undo_stack[1].position # redo_stack[1].position
    /\ buffer # snaps[1] /\ buffer # snaps[3]

----------------------------------------------------------------------------
(* The window and the end of the buffer *)

\* C29: after every redraw of a non-empty buffer the offset is at most
\* the first byte of the cursor's row, 16 * (cursor_nibble / 32), and so
\* below L, also when L is a multiple of 16 and the offset clamp alone
\* would allow offset = L: the window read starts inside the buffer.
WindowStartsInBuffer ==
    (status = "running" /\ height >= 5 /\ Len(buffer) > 0) =>
        /\ offset <= BYTES_PER_ROW * (cursor_nibble \div (2 * BYTES_PER_ROW))
        /\ offset < Len(buffer)
        /\ ~read_bytes(Editor, BYTES_PER_ROW * (height - 4), "debug").panic

\* a file of one full row, the cursor moved to its last nibble: a page
\* down put the offset at L, the redraw brought it back
WindowStartsInBufferSeen ==
    /\ status = "running" /\ height = 5
    /\ Len(buffer) % BYTES_PER_ROW = 0
    /\ last.op = "move_cursor"
    /\ cursor_nibble = 2 * Len(buffer) - 1
    /\ offset = 0

----------------------------------------------------------------------------
(* The cursor on the screen *)

\* the hex column of nibble n of a row
HexColumn(n) == coords_for_cursor(n, 0, "HexMode").x

\* C30: after a redraw, with n = cursor_nibble - 2 * offset and
\* b = (n mod 32) / 2, the cursor is drawn in row 3 + n / 32, one of the R
\* rows of data from row 3 on; in hex mode in column 12 + 3b + (n mod 2),
\* one more when b >= 8; in text mode in column 63 + b; and the 32 nibbles
\* of a row have 32 different hex columns.
CursorCellOfNibble ==
    (status = "running" /\ height >= 5) =>
        LET n == cursor_nibble - 2 * offset
            b == (n % 32) \div 2
            cell == coords_for_cursor(cursor_nibble, offset, editor_mode)
        IN  /\ n >= 0 /\ ~cell.unders
            /\ cell.y = 3 + n \div 32
            /\ cell.y >= 3 /\ cell.y < 3 + (height - 4)
            /\ editor_mode = "HexMode" =>
                  cell.x = 12 + 3 * b + (n % 2) + (IF b >= 8 THEN 1 ELSE 0)
            /\ editor_mode = "TextMode" => cell.x = 63 + b
            /\ Cardinality({HexColumn(k) : k \in 0..31}) = 32

\* the cursor on the low nibble of byte 8 of the first row, past the gap
CursorCellOfNibbleSeen ==
    /\ status = "running" /\ height = 6
    /\ editor_mode = "HexMode"
    /\ offset = 0
    /\ cursor_nibble = 17
    /\ coords_for_cursor(cursor_nibble, offset, editor_mode)
          = [x |-> 38, y |-> 3, unders |-> FALSE]

----------------------------------------------------------------------------
(* Jump to address *)

\* the address a line names: its hexadecimal digits after an optional
\* "0x", as a number of any size; -1 when the line is not such a number
RECURSIVE HexNumber(_, _)
HexNumber(digits, acc) ==
    IF digits = <<>> THEN acc
    ELSE IF HexDigit(Head(digits)) < 0 THEN -1
    ELSE HexNumber(Tail(digits), 16 * acc + HexDigit(Head(digits)))

AddressOf(line) ==
    IF StripHexPrefix(line) = <<>> THEN -1
    ELSE HexNumber(StripHexPrefix(line), 0)

\* Enter at the jump prompt in a terminal that is redrawn
JumpSubmitted ==
    /\ height >= 5
    /\ screen_mode = "CommandMode"
    /\ input_callback = "jump"
    /\ \E b \in Builds : CmdEnter(b)

\* C31: submitting a hexadecimal address A at the jump prompt, with or
\* without a leading "0x", leaves the cursor at nibble 2A when A < L and at
\* the last nibble 2L - 1 when A >= L; submitting a line that is not a
\* hexadecimal number leaves the cursor where it was; the session goes on
\* and buffer, history and dirty flag are unchanged in every case.
JumpPlacesCursor ==
    [][JumpSubmitted =>
          LET A == AddressOf(input_buffer) IN
          /\ status' = "running"
          /\ UNCHANGED <<buffer, undo_stack, redo_stack, saved>>
          /\ cursor_nibble' = IF A < 0 THEN cursor_nibble
                              ELSE IF A < Len(buffer) THEN 2 * A
                              ELSE 2 * Len(buffer) - 1
      ]_vars

====
